---- MODULE Spec2Model ----
(***************************************************************************)
(* Model of the arithmetic interpreter: Cursor and Tokenizer               *)
(* (src/src/tokenizer.rs), the Pratt parser (src/src/parser.rs), the       *)
(* evaluator (src/src/runtime.rs) and the main loop with its error         *)
(* formatter (src/src/main.rs).                                            *)
(*                                                                         *)
(* A string is a sequence of characters; a character is a one-element      *)
(* name ("1", "+", ...) or the code point of a multi-byte character        *)
(* ("U+2003").  Byte offsets are computed from len_utf8, so spans are byte *)
(* ranges while the cursor walks characters, as in the source.             *)
(*                                                                         *)
(* Option values: None is <<>>, Some(x) is <<x>>.                          *)
(* f64 values are modelled as signed rationals with signed zero,           *)
(* infinities and NaN; binary rounding is not modelled.                    *)
(***************************************************************************)
EXTENDS Integers, Sequences, FiniteSets, TLC

(***************************************************************************)
(* Bounds                                                                  *)
(***************************************************************************)
\* longest line drawn from the whole alphabet
MaxLen == 3
\* most tokens in a generated well-formed expression
MaxToks == 6
\* longest text following `?quit` (or preceding `?`) in a special-command line
MaxTail == 2

None == <<>>
Some(x) == <<x>>

(***************************************************************************)
(* Characters                                                              *)
(***************************************************************************)
\* U+2003 EM SPACE: White_Space, 3 bytes.  U+00E9: XID_Continue, 2 bytes.
\* U+20AC EURO SIGN: neither, 3 bytes.
Alphabet ==
    {" ", "U+2003", "?", "q", "U+00E9", "1", ".", "+", "-", "*", "(", ")", "U+20AC"}

AllChars ==
    Alphabet \cup {"\n", "\r", "\t", "u", "i", "t", "b", "l", "a", "/", "2", "3", "4", "8"}

len_utf8(c) ==
    CASE c \in {"U+2003", "U+20AC"} -> 3
      [] c = "U+00E9" -> 2
      [] OTHER -> 1

is_whitespace(c) == c \in {" ", "\n", "\r", "\t", "U+2003"}

is_ascii_digit(c) == c \in {"1", "2", "3", "4", "8"}

is_xid_continue(c) ==
    c \in {"q", "u", "i", "t", "b", "l", "a", "U+00E9"} \/ is_ascii_digit(c)

RECURSIVE str_len(_)
\* str::len: the length in bytes
str_len(s) == IF s = <<>> THEN 0 ELSE len_utf8(Head(s)) + str_len(Tail(s))

\* the byte offset of the k-th character boundary (k characters before it)
ByteOffset(s, k) == str_len(SubSeq(s, 1, k))

is_char_boundary(s, b) == \E k \in 0..Len(s) : ByteOffset(s, k) = b

\* &s[start..end] for offsets on character boundaries
str_index(s, start, end) ==
    LET i == CHOOSE k \in 0..Len(s) : ByteOffset(s, k) = start
        j == CHOOSE k \in 0..Len(s) : ByteOffset(s, k) = end
    IN  SubSeq(s, i + 1, j)

\* &s[start..end] faults unless start <= end <= len, both on boundaries
str_index_ok(s, start, end) ==
    /\ start <= end
    /\ is_char_boundary(s, start)
    /\ is_char_boundary(s, end)

(***************************************************************************)
(* Cursor: chars is the number of characters already taken from the        *)
(* iterator, byte_pos the byte position.                                   *)
(***************************************************************************)
Cursor_new == [chars |-> 0, byte_pos |-> 0]

Cursor_peek(s, cur) ==
    IF cur.chars < Len(s) THEN Some(s[cur.chars + 1]) ELSE None

\* the byte position after taking character c
Advance(byte_pos, c) == byte_pos + len_utf8(c)

Cursor_next(s, cur) ==
    IF cur.chars < Len(s)
    THEN [chars |-> cur.chars + 1, byte_pos |-> Advance(cur.byte_pos, s[cur.chars + 1])]
    ELSE cur

RECURSIVE skip_run(_, _, _)
\* skip_while, for the predicate "is a member of P"
skip_run(s, cur, P) ==
    IF Cursor_peek(s, cur) # None /\ Cursor_peek(s, cur)[1] \in P
    THEN skip_run(s, Cursor_next(s, cur), P)
    ELSE cur

Whitespaces == {c \in AllChars : is_whitespace(c)}
XidContinues == {c \in AllChars : is_xid_continue(c)}
AsciiDigits == {c \in AllChars : is_ascii_digit(c)}

\* a variant that advances the byte position by one per character of the run
Tokenizer_whitespace_chars(s, cur) ==
    LET c1 == skip_run(s, cur, Whitespaces)
    IN  [c1 EXCEPT !.byte_pos = cur.byte_pos + (c1.chars - cur.chars)]

Tokenizer_whitespace(s, cur) == skip_run(s, cur, Whitespaces)

\* a variant that stops at the first character outside ASCII
Tokenizer_identifier_ascii(s, cur) == skip_run(s, cur, XidContinues \ {"U+00E9"})

Tokenizer_identifier(s, cur) == skip_run(s, cur, XidContinues)

\* a variant that never takes the dot
Tokenizer_number_digits(s, cur) == skip_run(s, cur, AsciiDigits)

Tokenizer_number(s, cur) ==
    LET c1 == skip_run(s, cur, AsciiDigits)
    IN  IF Cursor_peek(s, c1) = Some(".")
        THEN skip_run(s, Cursor_next(s, c1), AsciiDigits)
        ELSE c1

(***************************************************************************)
(* f64                                                                     *)
(***************************************************************************)
RECURSIVE Gcd(_, _)
Gcd(a, b) == IF b = 0 THEN a ELSE Gcd(b, a % b)

\* a finite value (-1)^neg * n/d in lowest terms; n = 0 is a signed zero
Fin(neg, n, d) ==
    LET g == Gcd(n, d)
    IN  [cls |-> "fin", neg |-> neg, n |-> n \div g, d |-> d \div g]

Inf(neg) == [cls |-> "inf", neg |-> neg, n |-> 1, d |-> 0]
NaN == [cls |-> "nan", neg |-> FALSE, n |-> 0, d |-> 0]
F(k) == Fin(FALSE, k, 1)

DigitValue(c) ==
    CASE c = "1" -> 1 [] c = "2" -> 2 [] c = "3" -> 3 [] c = "4" -> 4 [] c = "8" -> 8

RECURSIVE DecimalValue(_)
DecimalValue(ds) ==
    IF ds = <<>> THEN 0
    ELSE 10 * DecimalValue(SubSeq(ds, 1, Len(ds) - 1)) + DigitValue(ds[Len(ds)])

RECURSIVE Pow10(_)
Pow10(k) == IF k = 0 THEN 1 ELSE 10 * Pow10(k - 1)

\* str::parse::<f64> on text of the form digits [ "." digits ]
f64_parse(text) ==
    LET dots == {i \in 1..Len(text) : text[i] = "."}
        dot == IF dots = {} THEN Len(text) + 1 ELSE CHOOSE i \in dots : TRUE
        int == SubSeq(text, 1, dot - 1)
        frac == SubSeq(text, dot + 1, Len(text))
    IN  Fin(FALSE, DecimalValue(int) * Pow10(Len(frac)) + DecimalValue(frac),
            Pow10(Len(frac)))

(***************************************************************************)
(* Tokens                                                                  *)
(***************************************************************************)
Span(start, end) == [start |-> start, end |-> end]

\* kind/sub name the TokenKind variant; num is the payload of Number
Token(kind, sub, num, span) == [kind |-> kind, sub |-> sub, num |-> num, span |-> span]

\* the identifier lookup of a special token
SpecialKind(identifier) ==
    IF identifier = <<"q", "u", "i", "t">> THEN "Quit" ELSE "Unrecognized"

\* a variant that looks up the whole text of the token, `?` included
SpecialIdentifier_whole(s, start, end) == str_index(s, start, end)

\* the text of a special token that is looked up: what follows the `?`
SpecialIdentifier(s, start, end) == str_index(s, start + 1, end)

OperationKind(c) ==
    CASE c = "+" -> "Plus" [] c = "-" -> "Minus" [] c = "*" -> "Star" [] c = "/" -> "Slash"

\* a variant that peeks the first character of the token instead of taking it
next_token_peek(s, cur) ==
    LET start == cur.byte_pos
        c == Cursor_peek(s, cur)
        c0 == cur
    IN  IF c = None THEN [token |-> None, cursor |-> c0]
        ELSE LET ch == c[1]
                 after ==
                    CASE is_whitespace(ch) -> Tokenizer_whitespace(s, c0)
                      [] ch = "?" -> Tokenizer_identifier(s, c0)
                      [] is_ascii_digit(ch) -> Tokenizer_number(s, c0)
                      [] OTHER -> c0
                 span == Span(start, after.byte_pos)
                 tok ==
                    CASE is_whitespace(ch) -> Token("Whitespace", "", F(0), span)
                      [] ch = "?" ->
                            Token("Special",
                                  SpecialKind(SpecialIdentifier(s, start, after.byte_pos)),
                                  F(0), span)
                      [] is_ascii_digit(ch) ->
                            Token("Number", "",
                                  f64_parse(str_index(s, start, after.byte_pos)), span)
                      [] ch \in {"+", "-", "*", "/"} ->
                            Token("Operation", OperationKind(ch), F(0), span)
                      [] ch = "(" -> Token("OpenParenthesis", "", F(0), span)
                      [] ch = ")" -> Token("CloseParenthesis", "", F(0), span)
                      [] OTHER -> Token("Unrecognized", "", F(0), span)
             IN  [token |-> Some(tok), cursor |-> after]

\* one call of next_token: [token |-> Option<Token>, cursor |-> the cursor after it]
next_token(s, cur) ==
    LET start == cur.byte_pos
        c == Cursor_peek(s, cur)
        c0 == Cursor_next(s, cur)
    IN  IF c = None THEN [token |-> None, cursor |-> c0]
        ELSE LET ch == c[1]
                 after ==
                    CASE is_whitespace(ch) -> Tokenizer_whitespace(s, c0)
                      [] ch = "?" -> Tokenizer_identifier(s, c0)
                      [] is_ascii_digit(ch) -> Tokenizer_number(s, c0)
                      [] OTHER -> c0
                 span == Span(start, after.byte_pos)
                 tok ==
                    CASE is_whitespace(ch) -> Token("Whitespace", "", F(0), span)
                      [] ch = "?" ->
                            Token("Special",
                                  SpecialKind(SpecialIdentifier(s, start, after.byte_pos)),
                                  F(0), span)
                      [] is_ascii_digit(ch) ->
                            Token("Number", "",
                                  f64_parse(str_index(s, start, after.byte_pos)), span)
                      [] ch \in {"+", "-", "*", "/"} ->
                            Token("Operation", OperationKind(ch), F(0), span)
                      [] ch = "(" -> Token("OpenParenthesis", "", F(0), span)
                      [] ch = ")" -> Token("CloseParenthesis", "", F(0), span)
                      [] OTHER -> Token("Unrecognized", "", F(0), span)
             IN  [token |-> Some(tok), cursor |-> after]

\* a variant that filters nothing
tokenize_filter_all(token) == TRUE

\* the filter of tokenize: which tokens the emitted sequence keeps
tokenize_filter(token) == token.kind # "Whitespace"

(***************************************************************************)
(* Expressions and the evaluator                                           *)
(***************************************************************************)
Atom(num) == [node |-> "Atom", num |-> num]
Unary(operation, operand) == [node |-> "Unary", operation |-> operation, operand |-> operand]
Binary(operation, lhs, rhs) ==
    [node |-> "Binary", operation |-> operation, lhs |-> lhs, rhs |-> rhs]

f64_neg(x) == IF x.cls = "nan" THEN x ELSE [x EXCEPT !.neg = ~x.neg]

f64_add(x, y) ==
    CASE x.cls = "nan" \/ y.cls = "nan" -> NaN
      [] x.cls = "inf" /\ y.cls = "inf" -> IF x.neg = y.neg THEN x ELSE NaN
      [] x.cls = "inf" -> x
      [] y.cls = "inf" -> y
      [] OTHER ->
            LET sx == IF x.neg THEN 0 - x.n ELSE x.n
                sy == IF y.neg THEN 0 - y.n ELSE y.n
                sum == sx * y.d + sy * x.d
            IN  IF sum = 0 THEN Fin(x.neg /\ y.neg, 0, 1)
                ELSE IF sum < 0 THEN Fin(TRUE, 0 - sum, x.d * y.d)
                ELSE Fin(FALSE, sum, x.d * y.d)

f64_sub(x, y) == f64_add(x, f64_neg(y))

f64_mul(x, y) ==
    LET neg == x.neg # y.neg
        zero(v) == v.cls = "fin" /\ v.n = 0
    IN  CASE x.cls = "nan" \/ y.cls = "nan" -> NaN
          [] (x.cls = "inf" /\ zero(y)) \/ (zero(x) /\ y.cls = "inf") -> NaN
          [] x.cls = "inf" \/ y.cls = "inf" -> Inf(neg)
          [] OTHER -> Fin(neg, x.n * y.n, x.d * y.d)

f64_div(x, y) ==
    LET neg == x.neg # y.neg
        zero(v) == v.cls = "fin" /\ v.n = 0
    IN  CASE x.cls = "nan" \/ y.cls = "nan" -> NaN
          [] x.cls = "inf" /\ y.cls = "inf" -> NaN
          [] zero(x) /\ zero(y) -> NaN
          [] x.cls = "inf" -> Inf(neg)
          [] y.cls = "inf" -> Fin(neg, 0, 1)
          [] zero(y) -> Inf(neg)
          [] OTHER -> Fin(neg, x.n * y.d, x.d * y.n)

RECURSIVE evaluate(_)
evaluate(expr) ==
    CASE expr.node = "Binary" ->
            LET l == evaluate(expr.lhs)
                r == evaluate(expr.rhs)
            IN  (CASE expr.operation = "Addition" -> f64_add(l, r)
                   [] expr.operation = "Subtraction" -> f64_sub(l, r)
                   [] expr.operation = "Multiplication" -> f64_mul(l, r)
                   [] expr.operation = "Division" -> f64_div(l, r))
      [] expr.node = "Unary" -> f64_neg(evaluate(expr.operand))
      [] expr.node = "Atom" -> expr.num

(***************************************************************************)
(* Parser                                                                  *)
(***************************************************************************)
Pending == [tag |-> "Pending", tree |-> "", expr |-> None, error |-> "", span |-> None]
Ok(tree, expr) == [tag |-> "Ok", tree |-> tree, expr |-> expr, error |-> "", span |-> None]
Err(error, span) == [tag |-> "Err", tree |-> "", expr |-> None, error |-> error, span |-> span]

\* t.map(|token| token.span)
SpanOf(t) == IF t = None THEN None ELSE Some(t[1].span)

\* a variant in which negation binds weaker than every infix operator
prefix_binding_power_low(op) == 0

prefix_binding_power(op) == 5

\* a variant in which every infix operator binds like + and -
infix_binding_power_flat(op) == <<1, 2>>

infix_binding_power(op) ==
    IF op \in {"Addition", "Subtraction"} THEN <<1, 2>> ELSE <<3, 4>>

BinaryOperation(sub) ==
    CASE sub = "Plus" -> "Addition" [] sub = "Minus" -> "Subtraction"
      [] sub = "Star" -> "Multiplication" [] sub = "Slash" -> "Division"

\* a variant that takes end-of-input for a close-parenthesis
IsCloseParenthesis_or_end(t) == t = None \/ t[1].kind = "CloseParenthesis"

\* matches!(closing_parenthesis, Some(Token { kind: CloseParenthesis, .. }))
IsCloseParenthesis(t) == t # None /\ t[1].kind = "CloseParenthesis"

\* a variant that stops at every item that is not an operator
LoopBreaks_any(t) == t = None \/ t[1].kind # "Operation"

\* the infix loop stops, without an error, at this peeked item
LoopBreaks(t) == t = None \/ t[1].kind = "CloseParenthesis"

\* a call of pratt_parser: its threshold, where it is, its lhs so far and the
\* operator whose right operand it waits for
Frame(min_bp) == [min_bp |-> min_bp, at |-> "start", lhs |-> None, op |-> ""]

Top(st) == st[Len(st)]
Pop(st) == SubSeq(st, 1, Len(st) - 1)
SetTop(st, f) == [st EXCEPT ![Len(st)] = f]

\* the caller's frame once its recursive call has returned expr
Resume(p, expr) ==
    CASE p.at = "unary" -> [p EXCEPT !.lhs = Some(Unary("Negation", expr)), !.at = "loop"]
      [] p.at = "paren" -> [p EXCEPT !.lhs = Some(expr), !.at = "close"]
      [] p.at = "binary" ->
            [p EXCEPT !.lhs = Some(Binary(p.op, p.lhs[1], expr)), !.at = "loop", !.op = ""]

(***************************************************************************)
(* Error formatter                                                         *)
(***************************************************************************)
\* input.len() - 1 on usize: below zero it overflows (a panic in a debug
\* build, a wrap to 2^64 - 1 in a release build, which no slice accepts)
unwrap_span(s, span) ==
    IF span # None THEN span[1] ELSE Span(str_len(s) - 1, str_len(s))

NoOutput == [kind |-> "none", value |-> NaN, found |-> <<>>, padding |-> 0, underline |-> 0]

\* format_error: the text found, the width of the padding and of the underline
\* (both in characters), or a panic when a slice is not on character boundaries
format_error(error, s) ==
    LET span == unwrap_span(s, error.span)
        ok == /\ span.start >= 0
              /\ str_index_ok(s, span.start, span.end)
    IN  IF ~ok THEN [NoOutput EXCEPT !.kind = "panic"]
        ELSE [NoOutput EXCEPT
                !.kind = "message",
                !.found = IF error.span = None THEN <<"<EOL>">>
                          ELSE str_index(s, span.start, span.end),
                !.padding = Len(str_index(s, 0, span.start)),
                !.underline = Len(str_index(s, span.start, span.end))]

(***************************************************************************)
(* Input lines                                                             *)
(***************************************************************************)
Strs(A, n) == UNION {[1..k -> A] : k \in 0..n}

RECURSIVE Join(_, _)
\* the tokens of toks, each followed by sep
Join(toks, sep) == IF toks = <<>> THEN <<>> ELSE <<Head(toks)>> \o sep \o Join(Tail(toks), sep)

InfixOps == {"+", "-", "*", "/"}
Digits == {"1", "2", "3"}
Seps == {<<>>, <<" ">>, <<"U+2003">>}

RECURSIVE WellFormed(_)
\* the expressions of exactly n one-character tokens:
\*   E ::= 1 | - E | ( E ) | E op E
WellFormed(n) ==
    IF n < 1 THEN {}
    ELSE IF n = 1 THEN {<<"1">>}
    ELSE {<<"-">> \o e : e \in WellFormed(n - 1)}
         \cup {<<"(">> \o e \o <<")">> : e \in WellFormed(n - 2)}
         \cup UNION {{l \o <<o>> \o r : l \in WellFormed(i), o \in InfixOps,
                                        r \in WellFormed(n - 1 - i)} : i \in 1..(n - 2)}

WellFormedExprs == UNION {WellFormed(n) : n \in 1..MaxToks}

\* a well-formed expression, alone or after an open-parenthesis
ExprLines ==
    {Join(e, sep) : e \in WellFormedExprs, sep \in Seps}
    \cup {Join(<<"(">> \o e, sep) : e \in WellFormedExprs, sep \in Seps}

\* a op1 b op2 c, (a op1 b) op2 c, -a op b and -(a op b)
InfixLines ==
    UNION {{Join(<<a, o1, b, o2, c>>, sep), Join(<<"(", a, o1, b, ")", o2, c>>, sep),
            Join(<<"-", a, o1, b>>, sep), Join(<<"-", "(", a, o1, b, ")">>, sep)} :
           a \in Digits, o1 \in InfixOps, b \in Digits, o2 \in InfixOps, c \in Digits,
           sep \in {<<>>, <<" ">>}}

\* `?` and a run of identifier characters, then possibly one more character
SpecialLines ==
    {lead \o <<"?">> \o id \o tail : lead \in Strs({" "}, 1),
                                     id \in Strs({"q", "u", "i", "t"}, 4),
                                     tail \in Strs({"+", " "}, 1)}

\* `?quit` and whatever follows it
QuitLines ==
    {lead \o <<"?", "q", "u", "i", "t">> \o tail : lead \in Strs({" ", "U+2003"}, 1),
                                                   tail \in Strs(Alphabet, MaxTail)}

NumberLines == Strs({"1", "2", "."}, MaxLen + 1)

\* the inputs of the repository's tests and of the specification's examples
ExampleLines ==
    {<<" ", "\n", "\r", "\t">>, <<"?", "q", "u", "i", "t">>,
     <<"?", "b", "l", "a", "b", "l", "a">>, <<"1", "2", "3", ".", "1", "2", "3">>,
     <<"1", "2", "3", ".">>, <<"1", "2", "3">>, <<"8", "/", "4", "/", "2">>,
     <<"(", "1", "+", "2", "\n">>, <<"(", "1", "+", "2", "U+2003">>}

Lines ==
    Strs(Alphabet, MaxLen) \cup ExprLines \cup InfixLines \cup SpecialLines
    \cup QuitLines \cup NumberLines \cup ExampleLines

(***************************************************************************)
(* State                                                                   *)
(***************************************************************************)
VARIABLES
    input,      \* the line being processed
    driver,     \* "parse": main's Parser::parse; "collect": tokenize().collect()
    pc,         \* where the driver is
    cursor,     \* the tokenizer's Cursor
    produced,   \* every token next_token has returned, Whitespace included
    emitted,    \* every token the sequence of tokenize() has yielded
    peeked,     \* the Peekable's buffer: Option<Option<Token>>
    stack,      \* the active calls of pratt_parser, innermost last
    result,     \* the Result of parse
    output      \* what main prints

vars == <<input, driver, pc, cursor, produced, emitted, peeked, stack, result, output>>

Init ==
    /\ input = <<>>
    /\ driver = "parse"
    /\ pc = "prompt"
    /\ cursor = Cursor_new
    /\ produced = <<>>
    /\ emitted = <<>>
    /\ peeked = None
    /\ stack = <<>>
    /\ result = Pending
    /\ output = NoOutput

\* prompt() returns a line and Parser::new(&input) is built, or a test builds
\* Tokenizer::new(input)
Prompt ==
    /\ pc = "prompt"
    /\ \E line \in Lines, d \in {"parse", "collect"} :
        /\ input' = line
        /\ driver' = d
        /\ pc' = d
    /\ cursor' = Cursor_new
    /\ produced' = <<>>
    /\ emitted' = <<>>
    /\ peeked' = None
    /\ stack' = <<>>
    /\ result' = Pending
    /\ output' = NoOutput

\* the token sequence is asked for an item while the Peekable holds none: one
\* call of next_token, whose token the filter keeps or drops
NextToken ==
    /\ pc \in {"parse", "pratt", "collect"}
    /\ peeked = None
    /\ LET r == next_token(input, cursor)
       IN  /\ cursor' = r.cursor
           /\ IF r.token = None
              THEN /\ peeked' = Some(None)
                   /\ UNCHANGED <<produced, emitted>>
              ELSE /\ produced' = Append(produced, r.token[1])
                   /\ IF tokenize_filter(r.token[1])
                      THEN /\ emitted' = Append(emitted, r.token[1])
                           /\ peeked' = Some(r.token)
                      ELSE UNCHANGED <<emitted, peeked>>
    /\ UNCHANGED <<input, driver, pc, stack, result, output>>

\* collect(): takes items until the sequence is exhausted
Collect ==
    /\ pc = "collect"
    /\ peeked # None
    /\ peeked' = None
    /\ pc' = IF peeked[1] = None THEN "collected" ELSE "collect"
    /\ UNCHANGED <<input, driver, cursor, produced, emitted, stack, result, output>>

\* Parser::parse: the dispatch on the first token
Parse ==
    /\ pc = "parse"
    /\ peeked # None
    /\ LET t == peeked[1]
       IN  CASE t = None ->
                    /\ result' = Ok("Empty", None)
                    /\ pc' = "parsed"
                    /\ stack' = stack
             [] t # None /\ t[1].kind = "Special" /\ t[1].sub = "Quit" ->
                    /\ result' = Ok("Quit", None)
                    /\ pc' = "parsed"
                    /\ stack' = stack
             [] t # None /\ t[1].kind = "Special" /\ t[1].sub = "Unrecognized" ->
                    /\ result' = Err("UnrecognizedSpecial", Some(t[1].span))
                    /\ pc' = "parsed"
                    /\ stack' = stack
             [] OTHER ->
                    /\ stack' = <<Frame(0)>>
                    /\ pc' = "pratt"
                    /\ result' = result
    /\ UNCHANGED <<input, driver, cursor, produced, emitted, peeked, output>>

\* pratt_parser fails: `?` unwinds every call and parse returns the error
Fail(error, span) ==
    /\ result' = Err(error, span)
    /\ stack' = <<>>
    /\ pc' = "parsed"

\* pratt_parser returns Ok(lhs) to its caller, or to parse
Return(expr) ==
    IF Len(stack) = 1
    THEN /\ result' = Ok("Expression", Some(expr))
         /\ stack' = <<>>
         /\ pc' = "parsed"
    ELSE /\ stack' = SetTop(Pop(stack), Resume(Top(Pop(stack)), expr))
         /\ UNCHANGED <<result, pc>>

\* pratt_parser, the left operand: tokens.next() and its match
PrattStart ==
    /\ pc = "pratt"
    /\ Top(stack).at = "start"
    /\ peeked # None
    /\ peeked' = None
    /\ LET t == peeked[1]
           f == Top(stack)
       IN  CASE t # None /\ t[1].kind = "Number" ->
                    /\ stack' = SetTop(stack, [f EXCEPT !.lhs = Some(Atom(t[1].num)),
                                                        !.at = "loop"])
                    /\ UNCHANGED <<result, pc>>
             [] t # None /\ t[1].kind = "Operation" /\ t[1].sub = "Minus" ->
                    /\ stack' = Append(SetTop(stack, [f EXCEPT !.at = "unary"]),
                                       Frame(prefix_binding_power("Negation")))
                    /\ UNCHANGED <<result, pc>>
             [] t # None /\ t[1].kind = "OpenParenthesis" ->
                    /\ stack' = Append(SetTop(stack, [f EXCEPT !.at = "paren"]), Frame(0))
                    /\ UNCHANGED <<result, pc>>
             [] OTHER -> Fail("ExpectedExprStart", SpanOf(t))
    /\ UNCHANGED <<input, driver, cursor, produced, emitted, output>>

\* pratt_parser, after the parenthesized sub-expression: tokens.next() must be `)`
PrattClose ==
    /\ pc = "pratt"
    /\ Top(stack).at = "close"
    /\ peeked # None
    /\ peeked' = None
    /\ LET t == peeked[1]
       IN  IF IsCloseParenthesis(t)
           THEN /\ stack' = SetTop(stack, [Top(stack) EXCEPT !.at = "loop"])
                /\ UNCHANGED <<result, pc>>
           ELSE Fail("UnclosedParenthesis", SpanOf(t))
    /\ UNCHANGED <<input, driver, cursor, produced, emitted, output>>

\* pratt_parser, one turn of the infix loop: tokens.peek() and its match
PrattLoop ==
    /\ pc = "pratt"
    /\ Top(stack).at = "loop"
    /\ peeked # None
    /\ LET t == peeked[1]
           f == Top(stack)
       IN  CASE LoopBreaks(t) ->
                    /\ Return(f.lhs[1])
                    /\ peeked' = peeked
             [] ~LoopBreaks(t) /\ t[1].kind = "Operation" ->
                    LET op == BinaryOperation(t[1].sub)
                        bp == infix_binding_power(op)
                    IN  IF bp[1] < f.min_bp
                        THEN /\ Return(f.lhs[1])
                             /\ peeked' = peeked
                        ELSE /\ peeked' = None
                             /\ stack' = Append(SetTop(stack, [f EXCEPT !.at = "binary",
                                                                        !.op = op]),
                                                Frame(bp[2]))
                             /\ UNCHANGED <<result, pc>>
             [] OTHER ->
                    /\ Fail("ExpectedBinaryOp", SpanOf(t))
                    /\ peeked' = peeked
    /\ UNCHANGED <<input, driver, cursor, produced, emitted, output>>

\* main: ParseTree::Expression is evaluated and printed
Evaluate ==
    /\ pc = "parsed"
    /\ result.tag = "Ok" /\ result.tree = "Expression"
    /\ output' = [NoOutput EXCEPT !.kind = "value", !.value = evaluate(result.expr[1])]
    /\ pc' = "printed"
    /\ UNCHANGED <<input, driver, cursor, produced, emitted, peeked, stack, result>>

\* main: ParseTree::Quit leaves the loop
Quit ==
    /\ pc = "parsed"
    /\ result.tag = "Ok" /\ result.tree = "Quit"
    /\ pc' = "exit"
    /\ UNCHANGED <<input, driver, cursor, produced, emitted, peeked, stack, result, output>>

\* main: an error is formatted and printed, unless format_error panics
FormatError ==
    /\ pc = "parsed"
    /\ result.tag = "Err"
    /\ output' = format_error(result, input)
    /\ pc' = IF output'.kind = "panic" THEN "panicked" ELSE "printed"
    /\ UNCHANGED <<input, driver, cursor, produced, emitted, peeked, stack, result>>

\* main: the next turn of the loop, after ParseTree::Empty or after printing
Continue ==
    /\ \/ pc = "parsed" /\ result.tag = "Ok" /\ result.tree = "Empty"
       \/ pc = "printed"
    /\ input' = <<>>
    /\ driver' = "parse"
    /\ pc' = "prompt"
    /\ cursor' = Cursor_new
    /\ produced' = <<>>
    /\ emitted' = <<>>
    /\ peeked' = None
    /\ stack' = <<>>
    /\ result' = Pending
    /\ output' = NoOutput

Next ==
    \/ Prompt
    \/ NextToken
    \/ Collect
    \/ Parse
    \/ PrattStart
    \/ PrattClose
    \/ PrattLoop
    \/ Evaluate
    \/ Quit
    \/ FormatError
    \/ Continue

Spec == Init /\ [][Next]_vars

(***************************************************************************)
(* Properties                                                              *)
(***************************************************************************)
\* the characters of s that are not whitespace
NonWs(s) == SelectSeq(s, LAMBDA c : ~is_whitespace(c))

AllWhitespace(s) == \A i \in 1..Len(s) : is_whitespace(s[i])

\* parse has returned for the current line
Parsed == driver = "parse" /\ pc \in {"parsed", "printed", "panicked", "exit"}

\* C1: whenever parse returns ParseTree::Expression, every non-whitespace token
\* of the line has been consumed: the cursor is at the end of the line and the
\* token sequence is exhausted, no token (such as an unmatched close-parenthesis)
\* is left in the lookahead.
C1_ExpressionConsumesAll ==
    (Parsed /\ result.tag = "Ok" /\ result.tree = "Expression")
        => (cursor.chars = Len(input) /\ peeked = Some(None))

\* C2: when parse fails with an absent span, format_error does not fault: the
\* line is not empty and the synthesized span [len-1, len) is exactly the last
\* character of the line, so the underline is one character wide and starts
\* after all the other characters.
C2_AbsentSpanFormats ==
    (Parsed /\ result.tag = "Err" /\ result.span = None /\ pc # "parsed")
        => /\ input # <<>>
           /\ pc = "printed"
           /\ output.kind = "message"
           /\ output.underline = 1
           /\ output.padding = Len(input) - 1

\* C3: collecting tokenize() over a non-empty line of whitespace only yields
\* exactly one token, of kind Whitespace, spanning [0, len).
C3_WhitespaceOnlyOneToken ==
    (pc = "collected" /\ input # <<>> /\ AllWhitespace(input))
        => emitted = <<Token("Whitespace", "", F(0), Span(0, str_len(input)))>>

LeadingWs(s) ==
    CHOOSE k \in 0..Len(s) :
        /\ \A i \in 1..k : is_whitespace(s[i])
        /\ k < Len(s) => ~is_whitespace(s[k + 1])

\* the first character of s that is not whitespace is `?`
SpecialFirst(s) == LeadingWs(s) < Len(s) /\ s[LeadingWs(s) + 1] = "?"

\* the index of the last character of the identifier run after the `?` at q
RunEnd(s, q) ==
    CHOOSE k \in q..Len(s) :
        /\ \A i \in (q + 1)..k : is_xid_continue(s[i])
        /\ k < Len(s) => ~is_xid_continue(s[k + 1])

\* the identifier run after the first `?`
IdentRun(s) == SubSeq(s, LeadingWs(s) + 2, RunEnd(s, LeadingWs(s) + 1))

\* C5: a line whose first non-whitespace token is `?quit` parses to Ok(Quit),
\* whatever follows the token.
C5_QuitWhateverFollows ==
    (Parsed /\ SpecialFirst(input) /\ IdentRun(input) = <<"q", "u", "i", "t">>)
        => result = Ok("Quit", None)

C5_Witness ==
    /\ pc = "exit"
    /\ result = Ok("Quit", None)
    /\ input = <<" ", "?", "q", "u", "i", "t", ")", "?">>

\* C6: a line whose first non-whitespace character is `?`, followed by an
\* identifier run other than `quit`, fails with UnrecognizedSpecial and a
\* present span from the byte offset of the `?` to the byte offset after the run.
C6_UnrecognizedSpecialSpan ==
    (Parsed /\ SpecialFirst(input) /\ IdentRun(input) # <<"q", "u", "i", "t">>)
        => result = Err("UnrecognizedSpecial",
                        Some(Span(ByteOffset(input, LeadingWs(input)),
                                  ByteOffset(input, RunEnd(input, LeadingWs(input) + 1)))))

C6_Witness ==
    /\ Parsed
    /\ input = <<"U+2003", "?", "U+00E9">>
    /\ result = Err("UnrecognizedSpecial", Some(Span(3, 6)))

Lit(c) == Atom(F(DigitValue(c)))

OpName(c) ==
    CASE c = "+" -> "Addition" [] c = "-" -> "Subtraction"
      [] c = "*" -> "Multiplication" [] c = "/" -> "Division"

IsDigit(c) == c \in {"1", "2", "3", "4", "8"}

\* the value main printed for the line
Printed(line, value) ==
    (driver = "parse" /\ pc = "printed" /\ input = line)
        => (output.kind = "value" /\ output.value = value)

\* C7: `a op1 b op2 c` parses to Binary(op1, a, Binary(op2, b, c)) exactly when
\* op1 is + or - and op2 is * or /, and to Binary(op2, Binary(op1, a, b), c)
\* otherwise; `(a op1 b) op2 c` always parses to the latter; 1+2*3 evaluates to
\* 7, (1+2)*3 to 9 and 8/4/2 to 1.
C7_InfixGrouping ==
    LET w == NonWs(input)
        left(a, o1, b, o2, c) == Binary(OpName(o2), Binary(OpName(o1), Lit(a), Lit(b)), Lit(c))
        right(a, o1, b, o2, c) == Binary(OpName(o1), Lit(a), Binary(OpName(o2), Lit(b), Lit(c)))
    IN  /\ (/\ Parsed /\ Len(w) = 5
            /\ IsDigit(w[1]) /\ w[2] \in InfixOps /\ IsDigit(w[3])
            /\ w[4] \in InfixOps /\ IsDigit(w[5]))
              => /\ result.tag = "Ok" /\ result.tree = "Expression"
                 /\ result.expr[1] =
                        IF w[2] \in {"+", "-"} /\ w[4] \in {"*", "/"}
                        THEN right(w[1], w[2], w[3], w[4], w[5])
                        ELSE left(w[1], w[2], w[3], w[4], w[5])
        /\ (/\ Parsed /\ Len(w) = 7
            /\ w[1] = "(" /\ IsDigit(w[2]) /\ w[3] \in InfixOps /\ IsDigit(w[4])
            /\ w[5] = ")" /\ w[6] \in InfixOps /\ IsDigit(w[7]))
              => /\ result.tag = "Ok" /\ result.tree = "Expression"
                 /\ result.expr[1] = left(w[2], w[3], w[4], w[6], w[7])
        /\ Printed(<<"1", "+", "2", "*", "3">>, F(7))
        /\ Printed(<<"(", "1", "+", "2", ")", "*", "3">>, F(9))
        /\ Printed(<<"8", "/", "4", "/", "2">>, F(1))

C7_Witness ==
    /\ driver = "parse" /\ pc = "printed"
    /\ input = <<"1", "+", "2", "*", "3">>
    /\ result.expr[1] = Binary("Addition", Lit("1"), Binary("Multiplication", Lit("2"), Lit("3")))
    /\ output.value = F(7)

\* C8: `-a op b` parses to Binary(op, Unary(Negation, a), b) and `-(a op b)` to
\* Unary(Negation, Binary(op, a, b)); -2*3 evaluates to -6 and -(2+3) to -5.
C8_PrefixBindsTighter ==
    LET w == NonWs(input)
    IN  /\ (/\ Parsed /\ Len(w) = 4
            /\ w[1] = "-" /\ IsDigit(w[2]) /\ w[3] \in InfixOps /\ IsDigit(w[4]))
              => /\ result.tag = "Ok" /\ result.tree = "Expression"
                 /\ result.expr[1] =
                        Binary(OpName(w[3]), Unary("Negation", Lit(w[2])), Lit(w[4]))
        /\ (/\ Parsed /\ Len(w) = 6
            /\ w[1] = "-" /\ w[2] = "(" /\ IsDigit(w[3]) /\ w[4] \in InfixOps
            /\ IsDigit(w[5]) /\ w[6] = ")")
              => /\ result.tag = "Ok" /\ result.tree = "Expression"
                 /\ result.expr[1] =
                        Unary("Negation", Binary(OpName(w[4]), Lit(w[3]), Lit(w[5])))
        /\ Printed(<<"-", "2", "*", "3">>, Fin(TRUE, 6, 1))
        /\ Printed(<<"-", "(", "2", "+", "3", ")">>, Fin(TRUE, 5, 1))

C8_Witness ==
    /\ driver = "parse" /\ pc = "printed"
    /\ input = <<"-", "2", "*", "3">>
    /\ result.expr[1] = Binary("Multiplication", Unary("Negation", Lit("2")), Lit("3"))
    /\ output.value = Fin(TRUE, 6, 1)

\* an open-parenthesis, then a well-formed expression, then nothing
OpenThenExpr == {<<"(">> \o e : e \in WellFormedExprs}

\* C9: a line made of an open-parenthesis, a well-formed expression and
\* end-of-input (whitespace anywhere between the tokens) fails with
\* UnclosedParenthesis and an absent span.
C9_UnclosedAtEndOfInput ==
    (Parsed /\ NonWs(input) \in OpenThenExpr)
        => result = Err("UnclosedParenthesis", None)

C9_Witness ==
    /\ Parsed
    /\ input = <<"(", " ", "1", " ", "+", " ", "(", " ", "1", " ", ")", " ">>
    /\ result = Err("UnclosedParenthesis", None)

\* text is a non-empty run of digits, then optionally a `.` and a run of digits
NumberShape(text) ==
    /\ text # <<>>
    /\ IsDigit(text[1])
    /\ \A i \in 1..Len(text) : IsDigit(text[i]) \/ text[i] = "."
    /\ Cardinality({i \in 1..Len(text) : text[i] = "."}) <= 1

\* C10: a line that is a run of digits, optionally followed by a `.` and a run
\* of digits, is exactly one Number token spanning [0, len); and every Number
\* token is the longest text of that shape at its place: it starts with a
\* digit, holds at most one `.`, and is followed neither by a digit nor by a
\* first `.`.
C10_NumberMaximalMatch ==
    /\ (pc = "collected" /\ NumberShape(input))
         => /\ Len(emitted) = 1
            /\ emitted[1].kind = "Number"
            /\ emitted[1].span = Span(0, str_len(input))
    /\ \A i \in 1..Len(produced) :
          produced[i].kind = "Number" =>
            LET text == str_index(input, produced[i].span.start, produced[i].span.end)
                k == CHOOSE j \in 0..Len(input) :
                        ByteOffset(input, j) = produced[i].span.end
            IN  /\ NumberShape(text)
                /\ k < Len(input) =>
                     /\ ~IsDigit(input[k + 1])
                     /\ input[k + 1] = "." => \E j \in 1..Len(text) : text[j] = "."
    /\ \A i \in 1..Len(produced) :
          LET j == CHOOSE j \in 0..Len(input) : ByteOffset(input, j) = produced[i].span.start
          IN  (IsDigit(input[j + 1]) <=> produced[i].kind = "Number")

C10_Witness ==
    /\ pc = "collected"
    /\ input = <<"1", "2", "3", ".">>
    /\ Len(emitted) = 1
    /\ emitted[1].kind = "Number"
    /\ emitted[1].span = Span(0, 4)

\* C11: after any number of calls of next_token, every token produced
\* (Whitespace included) has a span with start < end <= len(input), both ends
\* on character boundaries of the line in bytes; the first token starts at 0,
\* each token starts where the previous one ended, the cursor stands at the end
\* of the last one, and once the sequence is exhausted the last token ends at
\* len(input).
C11_SpansTileInput ==
    /\ \A i \in 1..Len(produced) :
          /\ produced[i].span.start < produced[i].span.end
          /\ produced[i].span.end <= str_len(input)
          /\ is_char_boundary(input, produced[i].span.start)
          /\ is_char_boundary(input, produced[i].span.end)
          /\ produced[i].span.start = IF i = 1 THEN 0 ELSE produced[i - 1].span.end
    /\ cursor.byte_pos = IF produced = <<>> THEN 0 ELSE produced[Len(produced)].span.end
    /\ cursor.byte_pos = ByteOffset(input, cursor.chars)
    /\ (pc = "collected" \/ peeked = Some(None)) => cursor.byte_pos = str_len(input)

C11_Witness ==
    /\ pc = "collected"
    /\ input = <<"U+2003", "?", "U+00E9">>
    /\ Len(produced) = 2
    /\ produced[1].span = Span(0, 3)
    /\ produced[2].span = Span(3, 6)

\* tokenization or parsing of the current line is under way
Running == pc \in {"parse", "pratt", "collect"}

\* what is left to do for the line: the characters not yet taken weigh most,
\* then the item held by the Peekable (a token, nothing, end-of-input), then
\* the dispatch of parse and the calls of pratt_parser still to return
Measure ==
    4 * (Len(input) - cursor.chars)
    + 2 * (IF peeked = None THEN 1 ELSE IF peeked[1] = None THEN 0 ELSE 2)
    + (IF pc = "parse" THEN 2 ELSE 0)
    + Len(stack)

\* some step of the tokenizer, of collect or of the parser can be taken
CanStep ==
    \/ peeked = None
    \/ pc \in {"parse", "collect"}
    \/ pc = "pratt" /\ stack # <<>> /\ Top(stack).at \in {"start", "close", "loop"}

\* C12: tokenization and parsing of a line terminate with a ParseTree or a
\* ParserError: while they run a step is always possible and every step
\* lowers a non-negative measure; a call of next_token before end-of-input
\* takes at least one character and produces one token, a call at end-of-input
\* changes nothing (the sequence stays exhausted), so at most len(input)
\* tokens are produced; and a call of pratt_parser recurses only in a step
\* that consumes a token.
C12_Terminates ==
    [][/\ Measure >= 0 /\ Measure' >= 0
       /\ Running => CanStep
       /\ Running' => CanStep'
       /\ (Running /\ Running') => Measure' < Measure
       /\ (Running /\ peeked = None /\ cursor.chars < Len(input))
            => /\ cursor'.chars > cursor.chars
               /\ Len(produced') = Len(produced) + 1
       /\ (Running /\ peeked = None /\ cursor.chars = Len(input))
            => /\ cursor' = cursor
               /\ produced' = produced
               /\ peeked' = Some(None)
       /\ Len(produced') <= Len(input')
       /\ (pc = "pratt" /\ Len(stack') > Len(stack))
            => /\ peeked # None /\ peeked[1] # None
               /\ peeked' = None
       /\ (Running /\ ~Running')
            => \/ pc' = "collected"
               \/ pc' = "parsed" /\ result'.tag \in {"Ok", "Err"}
      ]_vars

C12_Witness ==
    /\ driver = "parse" /\ pc = "printed"
    /\ input = <<"(", "(", "1", ")", ")">>
    /\ Len(produced) = 5
    /\ peeked = Some(None)
    /\ result.tag = "Ok" /\ result.tree = "Expression"

\* parse has failed on this line with this error
Fails(line, error, span) == (Parsed /\ input = line) => result = Err(error, span)

\* C13: whether a ParserError carries a span is fixed by its variant:
\* ExpectedBinaryOp and UnrecognizedSpecial always carry one,
\* UnclosedParenthesis never does (what follows a parsed parenthesized
\* sub-expression is a close-parenthesis or end-of-input), and
\* ExpectedExprStart occurs both with a span (`*`, `1+)`) and without (`1*`, `(`).
C13_SpanPresenceByVariant ==
    /\ (Parsed /\ result.tag = "Err") =>
          /\ result.error \in {"UnrecognizedSpecial", "ExpectedBinaryOp",
                               "ExpectedExprStart", "UnclosedParenthesis"}
          /\ result.error \in {"UnrecognizedSpecial", "ExpectedBinaryOp"}
                => result.span # None
          /\ result.error = "UnclosedParenthesis" => result.span = None
    /\ Fails(<<"*">>, "ExpectedExprStart", Some(Span(0, 1)))
    /\ Fails(<<"1", "+", ")">>, "ExpectedExprStart", Some(Span(2, 3)))
    /\ Fails(<<"1", "*">>, "ExpectedExprStart", None)
    /\ Fails(<<"(">>, "ExpectedExprStart", None)
    /\ Fails(<<"(", "1", "(">>, "ExpectedBinaryOp", Some(Span(2, 3)))
    /\ Fails(<<"(", "1", "U+20AC">>, "ExpectedBinaryOp", Some(Span(2, 5)))

C13_Witness ==
    /\ Parsed
    /\ input = <<"1", "*">>
    /\ result = Err("ExpectedExprStart", None)

\* the same variant with a present span
C13_WitnessPresent ==
    /\ Parsed
    /\ input = <<"1", "+", ")">>
    /\ result = Err("ExpectedExprStart", Some(Span(2, 3)))

====
